---- MODULE Spec2Model ----
\* Word-mcp: the document tools of word_mcp_server.py (path resolution, the
\* document store in the temp directory, conversion, download, the pipeline)
\* and main of client.py with its download decoding, as state machines:
\* SpecPath, SpecB64, Spec (tool calls one after another), SpecDownloads and
\* SpecMutations (calls running at the same time), SpecConvert (one
\* conversion, statement by statement) and SpecClient (the client's run).
\*
\* Strings the code inspects character by character (file names, paths,
\* base64 text) are sequences of one-character strings.
EXTENDS Integers, Sequences, FiniteSets, TLC

VARIABLES
  filename,   \* SpecPath: the filename argument under resolution
  pathPc,     \* SpecPath: "off", or "start" -> "resolved" -> "derived"
  safe_path,  \* SpecPath: get_safe_filepath(filename)
  pdf_path,   \* SpecPath: the path convert_to_pdf derives from safe_path
  data,       \* SpecB64: the bytes of the file download_document reads
  b64Pc,      \* SpecB64: "off", or "file" -> "sent" -> "received" -> "saved" / "failed" / "rejected"
  wire,       \* SpecB64: the text of the download result, as sent and as received
  file_bytes, \* SpecB64: the bytes client.py writes to the local file
  fs,         \* the temp directory: path -> file content
  spireOk,    \* whether the Spire.Doc converter works on this host
  last,       \* the tool call that returned last: its arguments and result
  fetched,    \* paths a download returned content from, not written since
  steps,      \* tool calls made so far
  built,      \* the blocks appended since the last create_document, call by call
  calls,      \* SpecDownloads, SpecMutations: worker -> the call it runs
  client,     \* SpecClient: client.py's main, its position and what it holds
  conv        \* SpecConvert: one convert_to_pdf call, its position and converter

pathVars == <<filename, pathPc, safe_path, pdf_path>>

b64Vars == <<data, b64Pc, wire, file_bytes>>

fsVars == <<fs, spireOk, last, fetched, steps, built>>

procVars == <<calls, client, conv>>

vars == <<pathVars, b64Vars, fsVars, procVars>>

----------------------------------------------------------------------------
\* Bounds

\* Longest filename, in tokens of NameTokens, that SpecPath resolves.
MaxNameTokens == 4

\* Longest file content, in bytes, that SpecB64 encodes.
MaxBytes == 4

\* Tool calls in one run of Spec.
MaxOps == 3

\* Workers running download_document at the same time in SpecDownloads.
NumWorkers == 2

----------------------------------------------------------------------------
\* Strings

Slash == "/"

DocxExt == <<".", "d", "o", "c", "x">>

PdfExt == <<".", "p", "d", "f">>

\* tempfile.gettempdir() on the deployment the comment of line 23 names.
TempDir == <<"/", "t", "m", "p">>

\* The pieces filenames are built from: a letter, a dot, a separator and the
\* extension the conversion looks for.
NameTokens == {<<"a">>, <<".">>, <<"/">>, DocxExt}

RECURSIVE Flatten(_)
Flatten(ss) == IF ss = <<>> THEN <<>> ELSE Head(ss) \o Flatten(Tail(ss))

\* Every filename of at most n tokens.
NamesUpTo(n) == {Flatten(ts) : ts \in UNION {[1..k -> NameTokens] : k \in 0..n}}

\* s[i..] starts with t.
StartsWithAt(s, i, t) ==
  /\ i + Len(t) - 1 <= Len(s)
  /\ \A k \in 1..Len(t) : s[i + k - 1] = t[k]

EndsWith(s, t) == Len(t) <= Len(s) /\ StartsWithAt(s, Len(s) - Len(t) + 1, t)

\* str.rfind(ch) + 1: the index (1-based) just after the last ch, 1 if none.
AfterLast(s, ch) ==
  LET hits == {i \in 1..Len(s) : s[i] = ch}
  IN IF hits = {} THEN 1 ELSE (CHOOSE i \in hits : \A j \in hits : j <= i) + 1

\* os.path.basename (posixpath): everything after the last "/".
basename(p) == SubSeq(p, AfterLast(p, Slash), Len(p))

\* os.path.join(a, b) (posixpath) for two components.
join(a, b) ==
  IF Len(b) > 0 /\ b[1] = Slash THEN b
  ELSE IF a = <<>> \/ a[Len(a)] = Slash THEN a \o b
  ELSE a \o <<Slash>> \o b

\* str.replace(old, new): every non-overlapping occurrence, left to right.
RECURSIVE replace(_, _, _)
replace(s, old, new) ==
  IF s = <<>> THEN <<>>
  ELSE IF StartsWithAt(s, 1, old)
       THEN new \o replace(SubSeq(s, Len(old) + 1, Len(s)), old, new)
       ELSE <<Head(s)>> \o replace(Tail(s), old, new)

----------------------------------------------------------------------------
\* Path resolution

\* get_safe_filepath, lines 16-24.
get_safe_filepath(name) ==
  LET safe_filename == basename(name)
  IN join(TempDir, safe_filename)

\* Lines 120-123 without the test of line 122: the target of a name that has
\* no Word extension is the source itself.
ConvertTargetNoAppend(docx_path) == replace(docx_path, DocxExt, PdfExt)

\* The target path of convert_to_pdf, lines 120-123.
ConvertTarget(docx_path) ==
  LET replaced == replace(docx_path, DocxExt, PdfExt)
  IN IF docx_path = replaced THEN replaced \o PdfExt ELSE replaced

\* What the operating system makes of a path: its components, "" and "."
\* dropped, ".." stepping to the parent (the root is its own parent).
RECURSIVE Components(_, _)
Components(p, acc) ==
  IF p = <<>> THEN acc
  ELSE LET cut == CHOOSE i \in 1..(Len(p) + 1) :
                    /\ i = Len(p) + 1 \/ p[i] = Slash
                    /\ \A j \in 1..(i - 1) : p[j] # Slash
           comp == SubSeq(p, 1, cut - 1)
           rest == SubSeq(p, cut + 1, Len(p))
           next == IF comp = <<>> \/ comp = <<".">> THEN acc
                   ELSE IF comp = <<".", ".">>
                        THEN (IF acc = <<>> THEN acc ELSE SubSeq(acc, 1, Len(acc) - 1))
                        ELSE Append(acc, comp)
       IN Components(rest, next)

Location(p) == Components(p, <<>>)

\* p names an entry directly or deeper inside the scratch directory.
StrictlyInside(p, dir) ==
  LET lp == Location(p)
      ld == Location(dir)
  IN Len(lp) > Len(ld) /\ SubSeq(lp, 1, Len(ld)) = ld

----------------------------------------------------------------------------
\* SpecPath: one filename through get_safe_filepath and the target derivation

\* No create_document to count appended blocks from.
NotBuilt == [on |-> FALSE, path |-> <<>>, blocks |-> <<>>]

PathOff ==
  /\ filename = <<>>
  /\ pathPc = "off"
  /\ safe_path = <<>>
  /\ pdf_path = <<>>

B64Off ==
  /\ data = <<>>
  /\ b64Pc = "off"
  /\ wire = <<>>
  /\ file_bytes = <<>>

FsOff ==
  /\ fs = <<>>
  /\ spireOk = TRUE
  /\ last = <<>>
  /\ fetched = {}
  /\ steps = 0
  /\ built = NotBuilt
  /\ calls = <<>>
  /\ client = [pc |-> "off"]
  /\ conv = [pc |-> "off"]

InitPath ==
  /\ filename \in NamesUpTo(MaxNameTokens)
  /\ pathPc = "start"
  /\ safe_path = <<>>
  /\ pdf_path = <<>>
  /\ B64Off
  /\ FsOff

Resolve ==
  /\ pathPc = "start"
  /\ safe_path' = get_safe_filepath(filename)
  /\ pathPc' = "resolved"
  /\ UNCHANGED <<filename, pdf_path, b64Vars, fsVars, procVars>>

DerivePdfPath ==
  /\ pathPc = "resolved"
  /\ pdf_path' = ConvertTarget(safe_path)
  /\ pathPc' = "derived"
  /\ UNCHANGED <<filename, safe_path, b64Vars, fsVars, procVars>>

NextPath == Resolve \/ DerivePdfPath

SpecPath == InitPath /\ [][NextPath]_vars

----------------------------------------------------------------------------
\* Base64 (base64.b64encode of line 100, base64.b64decode of client.py line 67)

B64Alphabet ==
  << "A", "B", "C", "D", "E", "F", "G", "H", "I", "J", "K", "L", "M",
     "N", "O", "P", "Q", "R", "S", "T", "U", "V", "W", "X", "Y", "Z",
     "a", "b", "c", "d", "e", "f", "g", "h", "i", "j", "k", "l", "m",
     "n", "o", "p", "q", "r", "s", "t", "u", "v", "w", "x", "y", "z",
     "0", "1", "2", "3", "4", "5", "6", "7", "8", "9", "+", "/" >>

B64Pad == "="

B64Char(v) == B64Alphabet[v + 1]

IsB64Char(ch) == \E i \in 1..Len(B64Alphabet) : B64Alphabet[i] = ch

B64Value(ch) == (CHOOSE i \in 1..Len(B64Alphabet) : B64Alphabet[i] = ch) - 1

\* The byte values file contents are drawn from.
ByteVals == {0, 77, 255}

BytesUpTo(n) == UNION {[1..k -> ByteVals] : k \in 0..n}

\* base64.b64encode: three bytes to four characters, the last group padded.
RECURSIVE b64encode(_)
b64encode(bs) ==
  IF Len(bs) = 0 THEN <<>>
  ELSE IF Len(bs) = 1
       THEN << B64Char(bs[1] \div 4), B64Char((bs[1] % 4) * 16), B64Pad, B64Pad >>
  ELSE IF Len(bs) = 2
       THEN << B64Char(bs[1] \div 4),
               B64Char((bs[1] % 4) * 16 + bs[2] \div 16),
               B64Char((bs[2] % 16) * 4),
               B64Pad >>
  ELSE << B64Char(bs[1] \div 4),
          B64Char((bs[1] % 4) * 16 + bs[2] \div 16),
          B64Char((bs[2] % 16) * 4 + bs[3] \div 64),
          B64Char(bs[3] % 64) >>
       \o b64encode(SubSeq(bs, 4, Len(bs)))

\* binascii.a2b_base64 without strict mode, character by character: characters
\* outside the alphabet are skipped, a pad that completes a group ends the input,
\* an incomplete group at the end raises binascii.Error.
RECURSIVE a2b_base64(_, _, _, _, _, _)
a2b_base64(s, i, quad_pos, leftchar, pads, out) ==
  IF i > Len(s)
  THEN IF quad_pos # 0 THEN [ok |-> FALSE, bytes |-> <<>>]
       ELSE [ok |-> TRUE, bytes |-> out]
  ELSE IF s[i] = B64Pad
       THEN IF quad_pos >= 2 /\ quad_pos + pads + 1 >= 4
            THEN [ok |-> TRUE, bytes |-> out]
            ELSE a2b_base64(s, i + 1, quad_pos, leftchar,
                            IF quad_pos >= 2 THEN pads + 1 ELSE pads, out)
  ELSE IF ~IsB64Char(s[i])
       THEN a2b_base64(s, i + 1, quad_pos, leftchar, pads, out)
  ELSE LET v == B64Value(s[i])
       IN CASE quad_pos = 0 -> a2b_base64(s, i + 1, 1, v, 0, out)
            [] quad_pos = 1 ->
                 a2b_base64(s, i + 1, 2, v % 16, 0,
                            Append(out, leftchar * 4 + v \div 16))
            [] quad_pos = 2 ->
                 a2b_base64(s, i + 1, 3, v % 4, 0,
                            Append(out, leftchar * 16 + v \div 4))
            [] quad_pos = 3 ->
                 a2b_base64(s, i + 1, 0, 0, 0, Append(out, leftchar * 64 + v))

b64decode(s) == a2b_base64(s, 1, 0, 0, 0, <<>>)

\* needle in haystack, as Python's `in` on strings.
Contains(haystack, needle) ==
  \E i \in 1..(Len(haystack) + 1) : StartsWithAt(haystack, i, needle)

ErrorMarker == <<"E", "r", "r", "o", "r", ":">>

Repeat(ch, n) == [k \in 1..n |-> ch]

\* client.py without lines 62-64: the received text decoded as it came.
RepadNone(base64_content) == base64_content

\* client.py lines 62-64: pad the received text to a multiple of four.
Repad(base64_content) ==
  LET padding == Len(base64_content) % 4
  IN IF padding # 0
     THEN base64_content \o Repeat(B64Pad, 4 - padding)
     ELSE base64_content

\* The number of pad characters the text ends with.
RECURSIVE TrailingPads(_)
TrailingPads(s) ==
  IF s # <<>> /\ s[Len(s)] = B64Pad
  THEN 1 + TrailingPads(SubSeq(s, 1, Len(s) - 1))
  ELSE 0

----------------------------------------------------------------------------
\* SpecB64: one file's bytes through download_document's encoding, the
\* transport and client.py's decoding

InitB64 ==
  /\ data \in BytesUpTo(MaxBytes)
  /\ b64Pc = "file"
  /\ wire = <<>>
  /\ file_bytes = <<>>
  /\ PathOff
  /\ FsOff

\* word_mcp_server.py lines 99-103: the file's bytes, encoded, are the result.
DownloadEncode ==
  /\ b64Pc = "file"
  /\ wire' = b64encode(data)
  /\ b64Pc' = "sent"
  /\ UNCHANGED <<data, file_bytes, pathVars, fsVars, procVars>>

\* The result reaches client.py line 56 whole, or with k of its trailing pad
\* characters dropped on the way.
Transit(k) ==
  /\ b64Pc = "sent"
  /\ k <= TrailingPads(wire)
  /\ wire' = SubSeq(wire, 1, Len(wire) - k)
  /\ b64Pc' = "received"
  /\ UNCHANGED <<data, file_bytes, pathVars, fsVars, procVars>>

\* client.py lines 58-74.
ClientDecode ==
  /\ b64Pc = "received"
  /\ IF ~Contains(wire, ErrorMarker)
     THEN LET decoded == b64decode(Repad(wire))
          IN IF decoded.ok
             THEN b64Pc' = "saved" /\ file_bytes' = decoded.bytes
             ELSE b64Pc' = "failed" /\ file_bytes' = <<>>
     ELSE b64Pc' = "rejected" /\ file_bytes' = <<>>
  /\ UNCHANGED <<data, wire, pathVars, fsVars, procVars>>

NextB64 ==
  \/ DownloadEncode
  \/ \E k \in 0..2 : Transit(k)
  \/ ClientDecode

SpecB64 == InitB64 /\ [][NextB64]_vars

----------------------------------------------------------------------------
\* The document store: files in the temp directory

\* The filenames the tools of Spec are called with: a Word name, a name
\* without the Word extension, a name behind a directory part that holds the
\* Word extension, and the empty name.
FsNames ==
  { <<"a">> \o DocxExt,
    <<"a">> \o PdfExt,
    DocxExt \o <<"/", "a">>,
    <<>> }

\* The filename process_document hands to upload_to_s3, lines 199-201.
PdfFilename(name) ==
  LET replaced == replace(name, DocxExt, PdfExt)
  IN IF replaced = name THEN replaced \o PdfExt ELSE replaced

\* Every path a tool call on FsNames can touch.
Paths ==
  {get_safe_filepath(n) : n \in FsNames}
    \cup {ConvertTarget(get_safe_filepath(n)) : n \in FsNames}
    \cup {get_safe_filepath(PdfFilename(n)) : n \in FsNames}

\* A path that names the temp directory itself or a directory above it.
IsDirectory(p) == ~StrictlyInside(p, TempDir)

Absent == [kind |-> "absent", blocks |-> <<>>]

Directory == [kind |-> "dir", blocks |-> <<>>]

\* A file that is no document (written by another program, or damaged).
Foreign == [kind |-> "bytes", blocks |-> <<>>]

\* Document(): the blank document of python-docx's default template.
BlankDocument == <<>>

Docx(blocks) == [kind |-> "docx", blocks |-> blocks]

Pdf(blocks) == [kind |-> "pdf", blocks |-> blocks]

Paragraph(text) == [type |-> "paragraph", text |-> text, level |-> 0]

Heading(text, level) == [type |-> "heading", text |-> text, level |-> level]

EmptyStore == [p \in Paths |-> IF IsDirectory(p) THEN Directory ELSE Absent]

\* The block texts of direct add_paragraph / add_heading calls.
Texts == {<<"T">>, <<"U">>}

\* The levels add_heading is called with: the default, and one outside 0-9.
Levels == {1, 10}

----------------------------------------------------------------------------
\* Results

CreatedMsg == "Document '{filename}' created successfully on the server in a temporary location."

ParagraphAddedMsg == "Paragraph added to '{filename}'."

ParagraphErrorMsg == "Error adding paragraph to '{filename}': {e}"

HeadingAddedMsg == "Heading added to '{filename}'."

HeadingErrorMsg == "Error adding heading to '{filename}': {e}"

EncodedMsg == "{encoded_string}"

NotFoundMsg == "Error: File not found on the server."

DownloadErrorMsg == "Error downloading '{filename}': {e}"

ConvertedMsg == "Document '{filename}' successfully converted to '{os.path.basename(pdf_path)}'."

ConvertErrorMsg == "Error converting '{filename}' to PDF: {e}"

UploadedMsg == "PDF '{filename}' has been successfully uploaded to the S3 bucket."

TagsErrorMsg == "Error: Input string must contain both <header> and <body> tags."

ProcessedMsg == "Process completed successfully. Document '{filename}' converted to '{pdf_filename}' and uploaded."

\* The templates whose text starts with "Error".
ErrorMsgs ==
  {ParagraphErrorMsg, HeadingErrorMsg, NotFoundMsg, DownloadErrorMsg,
   ConvertErrorMsg, TagsErrorMsg}

\* A returned string: the f-string of the source, the filename and exception
\* text formatted into it, and the other value formatted into it, if any.
Text(tmpl, name, e, arg) ==
  [kind |-> "text", tmpl |-> tmpl, filename |-> name, exc |-> e, arg |-> arg]

\* An exception that leaves the tool function.
Raise(name, e) ==
  [kind |-> "raise", tmpl |-> "", filename |-> name, exc |-> e, arg |-> <<>>]

NoResult == [kind |-> "none", tmpl |-> "", filename |-> <<>>, exc |-> "", arg |-> <<>>]

IsErrorResult(r) == r.kind = "text" /\ r.tmpl \in ErrorMsgs

IsSuccessResult(r) == r.kind = "text" /\ r.tmpl \notin ErrorMsgs

----------------------------------------------------------------------------
\* The text of a download_document result, character by character, as
\* client.py reads it from result.content[0].text (line 56)

\* NotFoundMsg, line 105.
NotFoundText ==
  << "E", "r", "r", "o", "r", ":", " ", "F", "i", "l", "e", " ",
     "n", "o", "t", " ", "f", "o", "u", "n", "d", " ", "o", "n",
     " ", "t", "h", "e", " ", "s", "e", "r", "v", "e", "r", "." >>

\* DownloadErrorMsg up to the filename, line 107.
DownloadErrorHead ==
  << "E", "r", "r", "o", "r", " ", "d", "o", "w", "n", "l", "o",
     "a", "d", "i", "n", "g", " ", "'" >>

\* DownloadErrorMsg between the filename and the exception text, line 107.
DownloadErrorMid == << "'", ":", " " >>

\* str(e) of the IsADirectoryError that open() and os.remove() raise, up to
\* the path.
IsADirectoryHead ==
  << "[", "E", "r", "r", "n", "o", " ", "2", "1", "]", " ", "I",
     "s", " ", "a", " ", "d", "i", "r", "e", "c", "t", "o", "r",
     "y", ":", " ", "'" >>

\* str(e) of line 107 for the exception e raised on path.
ExceptionText(e, path) ==
  CASE e = "IsADirectoryError" -> IsADirectoryHead \o path \o << "'" >>

\* The characters of the string download_document returns.
DownloadText(result) ==
  CASE result.tmpl = EncodedMsg -> result.arg
    [] result.tmpl = NotFoundMsg -> NotFoundText
    [] result.tmpl = DownloadErrorMsg ->
         DownloadErrorHead \o result.filename \o DownloadErrorMid
           \o ExceptionText(result.exc, get_safe_filepath(result.filename))

----------------------------------------------------------------------------
\* The libraries, as the tools use them

\* docx.Document(path): the blocks of the document at path, or the exception.
DocxLoad(store, p) ==
  CASE store[p].kind = "docx" -> [ok |-> TRUE, blocks |-> store[p].blocks, exc |-> ""]
    [] store[p].kind = "dir" -> [ok |-> FALSE, blocks |-> <<>>, exc |-> "FileNotFoundError"]
    [] OTHER -> [ok |-> FALSE, blocks |-> <<>>, exc |-> "PackageNotFoundError"]

\* document.save(path): the exception, "" when the file was written.
DocxSaveFault(store, p) ==
  IF store[p].kind = "dir" THEN "IsADirectoryError" ELSE ""

\* document.add_heading(text, level): python-docx accepts levels 0 to 9.
HeadingFault(level) ==
  IF level >= 0 /\ level <= 9 THEN "" ELSE "ValueError"

\* SpireDoc.LoadFromFile(path): the exception, "" when the document loaded.
SpireLoadFault(store, p, ok) ==
  IF ~ok THEN "SpireException"
  ELSE IF store[p].kind = "docx" THEN ""
  ELSE "SpireException"

\* SpireDoc.SaveToFile(path, FileFormat.PDF): the exception, "" when written.
SpireSaveFault(store, p) ==
  IF store[p].kind = "dir" THEN "SpireException" ELSE ""

\* open(path, "rb"): the exception, "" when the file opened.
OpenFault(store, p) ==
  CASE store[p].kind = "absent" -> "FileNotFoundError"
    [] store[p].kind = "dir" -> "IsADirectoryError"
    [] OTHER -> ""

\* os.remove(path): the exception, "" when the file was removed.
RemoveFault(store, p) ==
  CASE store[p].kind = "absent" -> "FileNotFoundError"
    [] store[p].kind = "dir" -> "IsADirectoryError"
    [] OTHER -> ""

\* The bytes of a file, as docx_file.read() returns them: a signature for the
\* format, then each block as its type, its level, its text and a terminator.
TokenByte(tok) ==
  CASE tok = "T" -> 84
    [] tok = "U" -> 85
    [] tok = " " -> 32
    [] OTHER -> 60

RECURSIVE BlockBytes(_)
BlockBytes(blocks) ==
  IF blocks = <<>> THEN <<>>
  ELSE LET b == Head(blocks)
       IN << (IF b.type = "heading" THEN 1 ELSE 2), b.level >>
            \o [i \in 1..Len(b.text) |-> TokenByte(b.text[i])]
            \o <<0>>
            \o BlockBytes(Tail(blocks))

FileBytes(content) ==
  CASE content.kind = "docx" -> <<80, 75>> \o BlockBytes(content.blocks)
    [] content.kind = "pdf" -> <<37, 80>> \o BlockBytes(content.blocks)
    [] OTHER -> <<0, 255>>

----------------------------------------------------------------------------
\* The tools. Each takes the store it runs on and gives the store it leaves
\* and the result it returns.

Outcome(store, result) == [fs |-> store, result |-> result]

\* create_document, lines 26-40: no try block, a fault of save leaves the call.
create_document(store, name) ==
  LET document == BlankDocument
      path == get_safe_filepath(name)
      fault == DocxSaveFault(store, path)
  IN IF fault # ""
     THEN Outcome(store, Raise(name, fault))
     ELSE Outcome([store EXCEPT ![path] = Docx(document)],
                  Text(CreatedMsg, name, "", <<>>))

\* add_paragraph starting a new document when none can be loaded.
add_paragraph_or_create(store, name, text) ==
  LET path == get_safe_filepath(name)
      loaded == DocxLoad(store, path)
      document == Append(loaded.blocks, Paragraph(text))
      fault == DocxSaveFault(store, path)
  IN IF fault # ""
     THEN Outcome(store, Text(ParagraphErrorMsg, name, fault, <<>>))
     ELSE Outcome([store EXCEPT ![path] = Docx(document)],
                  Text(ParagraphAddedMsg, name, "", <<>>))

\* add_paragraph that passes over a paragraph equal to the document's last
\* block.
add_paragraph_once(store, name, text) ==
  LET path == get_safe_filepath(name)
      loaded == DocxLoad(store, path)
      repeated == /\ loaded.blocks # <<>>
                  /\ loaded.blocks[Len(loaded.blocks)] = Paragraph(text)
      document == IF repeated THEN loaded.blocks
                  ELSE Append(loaded.blocks, Paragraph(text))
      fault == DocxSaveFault(store, path)
  IN IF ~loaded.ok
     THEN Outcome(store, Text(ParagraphErrorMsg, name, loaded.exc, <<>>))
     ELSE IF fault # ""
     THEN Outcome(store, Text(ParagraphErrorMsg, name, fault, <<>>))
     ELSE Outcome([store EXCEPT ![path] = Docx(document)],
                  Text(ParagraphAddedMsg, name, "", <<>>))

\* add_paragraph, lines 42-61.
add_paragraph(store, name, text) ==
  LET path == get_safe_filepath(name)
      loaded == DocxLoad(store, path)
      document == Append(loaded.blocks, Paragraph(text))
      fault == DocxSaveFault(store, path)
  IN IF ~loaded.ok
     THEN Outcome(store, Text(ParagraphErrorMsg, name, loaded.exc, <<>>))
     ELSE IF fault # ""
     THEN Outcome(store, Text(ParagraphErrorMsg, name, fault, <<>>))
     ELSE Outcome([store EXCEPT ![path] = Docx(document)],
                  Text(ParagraphAddedMsg, name, "", <<>>))

\* add_heading, lines 63-83.
add_heading(store, name, text, level) ==
  LET path == get_safe_filepath(name)
      loaded == DocxLoad(store, path)
      bad == HeadingFault(level)
      document == Append(loaded.blocks, Heading(text, level))
      fault == DocxSaveFault(store, path)
  IN IF ~loaded.ok
     THEN Outcome(store, Text(HeadingErrorMsg, name, loaded.exc, <<>>))
     ELSE IF bad # ""
     THEN Outcome(store, Text(HeadingErrorMsg, name, bad, <<>>))
     ELSE IF fault # ""
     THEN Outcome(store, Text(HeadingErrorMsg, name, fault, <<>>))
     ELSE Outcome([store EXCEPT ![path] = Docx(document)],
                  Text(HeadingAddedMsg, name, "", <<>>))

\* Lines 106-107 alone, without the except clause of lines 104-105.
DownloadFailureGeneric(name, fault) == Text(DownloadErrorMsg, name, fault, <<>>)

\* Lines 104-107 for a fault of open or of remove.
DownloadFailure(name, fault) ==
  IF fault = "FileNotFoundError"
  THEN Text(NotFoundMsg, name, "", <<>>)
  ELSE Text(DownloadErrorMsg, name, fault, <<>>)

\* Line 100: the bytes of the opened file, encoded.
download_read(content) == b64encode(FileBytes(content))

\* Lines 102-103 with a remove that passes over a file already gone.
download_remove_if_exists(store, name, encoded_string) ==
  LET path == get_safe_filepath(name)
      fault == RemoveFault(store, path)
  IN IF fault = "FileNotFoundError"
     THEN Outcome(store, Text(EncodedMsg, name, "", encoded_string))
     ELSE IF fault # ""
     THEN Outcome(store, DownloadFailure(name, fault))
     ELSE Outcome([store EXCEPT ![path] = Absent],
                  Text(EncodedMsg, name, "", encoded_string))

\* Lines 102-103: the file removed, then the encoded text returned; a fault
\* of remove is handled by lines 104-107.
download_remove(store, name, encoded_string) ==
  LET path == get_safe_filepath(name)
      fault == RemoveFault(store, path)
  IN IF fault # ""
     THEN Outcome(store, DownloadFailure(name, fault))
     ELSE Outcome([store EXCEPT ![path] = Absent],
                  Text(EncodedMsg, name, "", encoded_string))

\* download_document without the os.remove of line 102.
download_document_keep(store, name) ==
  LET path == get_safe_filepath(name)
      opened == OpenFault(store, path)
  IN IF opened # ""
     THEN Outcome(store, DownloadFailure(name, opened))
     ELSE Outcome(store, Text(EncodedMsg, name, "", download_read(store[path])))

\* download_document, lines 85-107, run without interruption.
download_document(store, name) ==
  LET path == get_safe_filepath(name)
      opened == OpenFault(store, path)
  IN IF opened # ""
     THEN Outcome(store, DownloadFailure(name, opened))
     ELSE download_remove(store, name, download_read(store[path]))

\* convert_to_pdf without the LoadFromFile of line 126: the converter saves
\* the blank document it was created with.
convert_to_pdf_unloaded(store, name, ok) ==
  LET docx_path == get_safe_filepath(name)
      target == ConvertTarget(docx_path)
      saveFault == IF ~ok THEN "SpireException" ELSE SpireSaveFault(store, target)
  IN IF saveFault # ""
     THEN Outcome(store, Text(ConvertErrorMsg, name, saveFault, <<>>))
     ELSE Outcome([store EXCEPT ![target] = Pdf(BlankDocument)],
                  Text(ConvertedMsg, name, "", basename(target)))

\* convert_to_pdf that removes the source document once the PDF is written.
convert_to_pdf_moving(store, name, ok) ==
  LET docx_path == get_safe_filepath(name)
      target == ConvertTarget(docx_path)
      loadFault == SpireLoadFault(store, docx_path, ok)
      saveFault == SpireSaveFault(store, target)
  IN IF loadFault # ""
     THEN Outcome(store, Text(ConvertErrorMsg, name, loadFault, <<>>))
     ELSE IF saveFault # ""
     THEN Outcome(store, Text(ConvertErrorMsg, name, saveFault, <<>>))
     ELSE Outcome([store EXCEPT ![target] = Pdf(store[docx_path].blocks),
                                ![docx_path] = Absent],
                  Text(ConvertedMsg, name, "", basename(target)))

\* convert_to_pdf, lines 109-132; ok: whether the converter works.
convert_to_pdf(store, name, ok) ==
  LET docx_path == get_safe_filepath(name)
      target == ConvertTarget(docx_path)
      loadFault == SpireLoadFault(store, docx_path, ok)
      saveFault == SpireSaveFault(store, target)
  IN IF loadFault # ""
     THEN Outcome(store, Text(ConvertErrorMsg, name, loadFault, <<>>))
     ELSE IF saveFault # ""
     THEN Outcome(store, Text(ConvertErrorMsg, name, saveFault, <<>>))
     ELSE Outcome([store EXCEPT ![target] = Pdf(store[docx_path].blocks)],
                  Text(ConvertedMsg, name, "", basename(target)))

\* upload_to_s3, lines 134-157: no try block, a fault of remove leaves the call.
upload_to_s3(store, name) ==
  LET path == get_safe_filepath(name)
      exists == store[path].kind # "absent"
      fault == RemoveFault(store, path)
  IN IF exists /\ fault # ""
     THEN Outcome(store, Raise(name, fault))
     ELSE IF exists
     THEN Outcome([store EXCEPT ![path] = Absent], Text(UploadedMsg, name, "", <<>>))
     ELSE Outcome(store, Text(UploadedMsg, name, "", <<>>))

----------------------------------------------------------------------------
\* process_document

HeaderOpen == "<header>"

HeaderClose == "</header>"

BodyOpen == "<body>"

BodyClose == "</body>"

\* The input strings of process_document, tags and text as tokens: both
\* regions (with blanks to strip), the body missing, the header missing, the
\* body never closed.
ProcessInputs ==
  { <<HeaderOpen, " ", "T", HeaderClose, BodyOpen, "U", " ", BodyClose>>,
    <<HeaderOpen, "T", HeaderClose>>,
    <<BodyOpen, "U", BodyClose>>,
    <<HeaderOpen, "T", HeaderClose, BodyOpen, "U">> }

\* re.search(open + "(.*?)" + close, s, re.DOTALL): the leftmost open tag with
\* a close tag after it, and as group 1 the text up to the first such close.
Search(s, open, close) ==
  LET starts == {i \in 1..Len(s) :
                   s[i] = open /\ \E j \in (i + 1)..Len(s) : s[j] = close}
  IN IF starts = {} THEN [found |-> FALSE, group |-> <<>>]
     ELSE LET i == CHOOSE k \in starts : \A m \in starts : k <= m
              j == CHOOSE k \in (i + 1)..Len(s) :
                     s[k] = close /\ \A m \in (i + 1)..(k - 1) : s[m] # close
          IN [found |-> TRUE, group |-> SubSeq(s, i + 1, j - 1)]

\* str.strip(): blanks removed at both ends.
RECURSIVE strip(_)
strip(s) ==
  IF s = <<>> THEN s
  ELSE IF Head(s) = " " THEN strip(Tail(s))
  ELSE IF s[Len(s)] = " " THEN strip(SubSeq(s, 1, Len(s) - 1))
  ELSE s

Stage(name, result) == [stage |-> name, result |-> result]

\* The plausible slip of line 180: `and` for `or`.
TagsMissingBoth(header_match, body_match) ==
  ~header_match.found /\ ~body_match.found

\* Line 180: if not header_match or not body_match.
TagsMissing(header_match, body_match) ==
  ~header_match.found \/ ~body_match.found

\* process_document, lines 160-210: the store it leaves, its result, and the
\* stages it ran with the result of each.
process_document(store, input_string, name, ok) ==
  LET header_match == Search(input_string, HeaderOpen, HeaderClose)
      body_match == Search(input_string, BodyOpen, BodyClose)
      header_text == strip(header_match.group)
      body_text == strip(body_match.group)
      created == create_document(store, name)
      headed == add_heading(created.fs, name, header_text, 1)
      bodied == add_paragraph(headed.fs, name, body_text)
      pdf_filename == PdfFilename(name)
      converted == convert_to_pdf(bodied.fs, name, ok)
      uploaded == upload_to_s3(converted.fs, pdf_filename)
      ran == << Stage("create", created.result), Stage("add_heading", headed.result),
                Stage("add_paragraph", bodied.result), Stage("convert", converted.result),
                Stage("upload", uploaded.result) >>
  IN IF TagsMissing(header_match, body_match)
     THEN [fs |-> store, result |-> Text(TagsErrorMsg, name, "", <<>>), stages |-> <<>>]
     ELSE IF ~header_match.found \/ ~body_match.found
     THEN \* lines 183-184: .group(1) of None
          [fs |-> store, result |-> Raise(name, "AttributeError"), stages |-> <<>>]
     ELSE IF created.result.kind = "raise"
     THEN [fs |-> created.fs, result |-> created.result, stages |-> SubSeq(ran, 1, 1)]
     ELSE IF uploaded.result.kind = "raise"
     THEN [fs |-> uploaded.fs, result |-> uploaded.result, stages |-> ran]
     ELSE [fs |-> uploaded.fs,
           result |-> Text(ProcessedMsg, name, "", pdf_filename),
           stages |-> ran]

----------------------------------------------------------------------------
\* Spec: tool calls, one after another, on the shared temp directory

Call(op, name, text, level, input, result, stages) ==
  [op |-> op, filename |-> name, text |-> text, level |-> level,
   input |-> input, result |-> result, stages |-> stages]

NoCall == Call("none", <<>>, <<>>, 0, <<>>, NoResult, <<>>)

\* The temp directory as a run finds it: empty, or holding one file that is
\* no document under one of the names.
InitialStores ==
  {EmptyStore}
    \cup {[EmptyStore EXCEPT ![get_safe_filepath(n)] = Foreign] :
            n \in {m \in FsNames : ~IsDirectory(get_safe_filepath(m))}}

\* The paths a step from store to after wrote a file to.
Written(store, after) ==
  {p \in Paths : after[p] # store[p] /\ after[p].kind # "absent"}

\* The block an add_paragraph / add_heading call appends (lines 57, 79).
BlockOf(call) ==
  IF call.op = "add_heading" THEN Heading(call.text, call.level)
  ELSE Paragraph(call.text)

\* The blocks appended since the last create_document, after this call: a
\* create_document that succeeded starts the list for its path, an
\* add_paragraph / add_heading on that path that succeeded extends it by the
\* block of its arguments, every other call ends it.
Built(call) ==
  LET path == get_safe_filepath(call.filename)
  IN IF ~IsSuccessResult(call.result) THEN NotBuilt
     ELSE IF call.op = "create_document"
     THEN [on |-> TRUE, path |-> path, blocks |-> <<>>]
     ELSE IF /\ call.op \in {"add_paragraph", "add_heading"}
             /\ built.on
             /\ built.path = path
     THEN [built EXCEPT !.blocks = Append(@, BlockOf(call))]
     ELSE NotBuilt

\* A tool call returns: the store, the record of the call, the history.
Return(call, after) ==
  /\ steps < MaxOps
  /\ fs' = after
  /\ last' = call
  /\ fetched' =
       (fetched \ Written(fs, after))
         \cup (IF call.op = "download_document" /\ call.result.tmpl = EncodedMsg
               THEN {get_safe_filepath(call.filename)} ELSE {})
  /\ steps' = steps + 1
  /\ built' = Built(call)
  /\ UNCHANGED <<spireOk, pathVars, b64Vars, procVars>>

CreateDocument(name) ==
  LET out == create_document(fs, name)
  IN Return(Call("create_document", name, <<>>, 0, <<>>, out.result, <<>>), out.fs)

AddParagraph(name, text) ==
  LET out == add_paragraph(fs, name, text)
  IN Return(Call("add_paragraph", name, text, 0, <<>>, out.result, <<>>), out.fs)

AddHeading(name, text, level) ==
  LET out == add_heading(fs, name, text, level)
  IN Return(Call("add_heading", name, text, level, <<>>, out.result, <<>>), out.fs)

DownloadDocument(name) ==
  LET out == download_document(fs, name)
  IN Return(Call("download_document", name, <<>>, 0, <<>>, out.result, <<>>), out.fs)

ConvertToPdf(name) ==
  LET out == convert_to_pdf(fs, name, spireOk)
  IN Return(Call("convert_to_pdf", name, <<>>, 0, <<>>, out.result, <<>>), out.fs)

UploadToS3(name) ==
  LET out == upload_to_s3(fs, name)
  IN Return(Call("upload_to_s3", name, <<>>, 0, <<>>, out.result, <<>>), out.fs)

ProcessDocument(input_string, name) ==
  LET out == process_document(fs, input_string, name, spireOk)
  IN Return(Call("process_document", name, <<>>, 0, input_string, out.result, out.stages),
            out.fs)

Init ==
  /\ fs \in InitialStores
  /\ spireOk \in BOOLEAN
  /\ last = NoCall
  /\ fetched = {}
  /\ steps = 0
  /\ built = NotBuilt
  /\ calls = <<>>
  /\ client = [pc |-> "off"]
  /\ conv = [pc |-> "off"]
  /\ PathOff
  /\ B64Off

Next ==
  \/ \E name \in FsNames : CreateDocument(name)
  \/ \E name \in FsNames, text \in Texts : AddParagraph(name, text)
  \/ \E name \in FsNames, text \in Texts, level \in Levels : AddHeading(name, text, level)
  \/ \E name \in FsNames : DownloadDocument(name)
  \/ \E name \in FsNames : ConvertToPdf(name)
  \/ \E name \in FsNames : UploadToS3(name)
  \/ \E input_string \in ProcessInputs, name \in FsNames : ProcessDocument(input_string, name)

Spec == Init /\ [][Next]_vars

----------------------------------------------------------------------------
\* SpecDownloads: download_document calls running at the same time, each a
\* worker that resolves the path, opens the file, reads it, removes it and
\* returns, with the other workers' steps in between

Workers == 1..NumWorkers

\* A worker's call: where it stands, its filename, the content of the file
\* it holds open, the text it has encoded, and its result once it returned.
Download(pc, name, handle, encoded_string, result) ==
  [pc |-> pc, filename |-> name, handle |-> handle,
   encoded_string |-> encoded_string, result |-> result]

Idle == Download("idle", <<>>, Absent, <<>>, NoResult)

\* The temp directory as the workers find it: one document, under one name.
DownloadStores ==
  {[EmptyStore EXCEPT ![get_safe_filepath(n)] = Docx(<<Paragraph(t)>>)] :
     n \in {m \in FsNames : ~IsDirectory(get_safe_filepath(m))}, t \in Texts}

InitDownloads ==
  /\ fs \in DownloadStores
  /\ calls = [w \in Workers |-> Idle]
  /\ spireOk = TRUE
  /\ last = <<>>
  /\ fetched = {}
  /\ steps = 0
  /\ built = NotBuilt
  /\ client = [pc |-> "off"]
  /\ conv = [pc |-> "off"]
  /\ PathOff
  /\ B64Off

Frame == UNCHANGED <<spireOk, last, fetched, steps, built, client, conv, pathVars, b64Vars>>

\* Line 97: the call arrives and resolves its path.
DlBegin(w, name) ==
  /\ calls[w].pc = "idle"
  /\ calls' = [calls EXCEPT ![w] = Download("open", name, Absent, <<>>, NoResult)]
  /\ UNCHANGED fs
  /\ Frame

\* Line 99: open(safe_path, "rb"); a fault goes to lines 104-107.
DlOpen(w) ==
  /\ calls[w].pc = "open"
  /\ LET name == calls[w].filename
         path == get_safe_filepath(name)
         fault == OpenFault(fs, path)
     IN calls' = [calls EXCEPT ![w] =
          IF fault # ""
          THEN Download("done", name, Absent, <<>>, DownloadFailure(name, fault))
          ELSE Download("read", name, fs[path], <<>>, NoResult)]
  /\ UNCHANGED fs
  /\ Frame

\* Line 100: the open file is read and encoded, then closed; a file removed
\* by another worker since the open is still read through the open handle.
DlRead(w) ==
  /\ calls[w].pc = "read"
  /\ calls' = [calls EXCEPT ![w] =
       Download("remove", calls[w].filename, calls[w].handle,
                download_read(calls[w].handle), NoResult)]
  /\ UNCHANGED fs
  /\ Frame

\* Lines 102-107: os.remove, then the return.
DlRemove(w) ==
  /\ calls[w].pc = "remove"
  /\ LET out == download_remove(fs, calls[w].filename, calls[w].encoded_string)
     IN /\ fs' = out.fs
        /\ calls' = [calls EXCEPT ![w] =
             Download("done", calls[w].filename, calls[w].handle,
                      calls[w].encoded_string, out.result)]
  /\ Frame

NextDownloads ==
  \/ \E w \in Workers, name \in FsNames : DlBegin(w, name)
  \/ \E w \in Workers : DlOpen(w)
  \/ \E w \in Workers : DlRead(w)
  \/ \E w \in Workers : DlRemove(w)

SpecDownloads == InitDownloads /\ [][NextDownloads]_vars

----------------------------------------------------------------------------
\* SpecMutations: add_paragraph / add_heading calls running at the same time,
\* each a worker that loads the document, appends its block to its own copy,
\* saves the copy and returns, with the other workers' steps in between

\* A worker's call: where it stands, the tool and its arguments, its copy of
\* the document, its result once it returned, and its place among the saves
\* made so far (0: it has not saved).
Mutation(pc, op, name, text, level, document, result, saved) ==
  [pc |-> pc, op |-> op, filename |-> name, text |-> text, level |-> level,
   document |-> document, result |-> result, saved |-> saved]

Resting == Mutation("idle", "none", <<>>, <<>>, 0, <<>>, NoResult, 0)

\* The temp directory as the workers find it: one blank document.
MutationStores ==
  {[EmptyStore EXCEPT ![get_safe_filepath(n)] = Docx(BlankDocument)] :
     n \in {m \in FsNames : ~IsDirectory(get_safe_filepath(m))}}

\* Lines 60-61, 82-83.
MutationError(call, e) ==
  Text(IF call.op = "add_heading" THEN HeadingErrorMsg ELSE ParagraphErrorMsg,
       call.filename, e, <<>>)

\* Lines 59, 81.
MutationAdded(call) ==
  Text(IF call.op = "add_heading" THEN HeadingAddedMsg ELSE ParagraphAddedMsg,
       call.filename, "", <<>>)

\* A save that appends the call's new block to the file as it is by now.
save_document_merged(store, path, document) ==
  [store EXCEPT ![path] =
     Docx(Append(IF store[path].kind = "docx" THEN store[path].blocks ELSE <<>>,
                 document[Len(document)]))]

\* document.save(safe_path), lines 58, 80: the file becomes the call's copy.
save_document(store, path, document) ==
  [store EXCEPT ![path] = Docx(document)]

InitMutations ==
  /\ fs \in MutationStores
  /\ calls = [w \in Workers |-> Resting]
  /\ spireOk = TRUE
  /\ last = <<>>
  /\ fetched = {}
  /\ steps = 0
  /\ built = NotBuilt
  /\ client = [pc |-> "off"]
  /\ conv = [pc |-> "off"]
  /\ PathOff
  /\ B64Off

\* Lines 54, 76: the call arrives (add_heading with the level of client.py
\* line 32) and resolves its path.
MuBegin(w, op, name, text) ==
  /\ calls[w].pc = "idle"
  /\ calls' = [calls EXCEPT ![w] =
       Mutation("load", op, name, text, IF op = "add_heading" THEN 1 ELSE 0,
                <<>>, NoResult, 0)]
  /\ UNCHANGED fs
  /\ Frame

\* Lines 56-57, 78-79: Document(safe_path), then the block appended to the
\* copy in memory; a fault goes to lines 60-61, 82-83.
MuLoad(w) ==
  /\ calls[w].pc = "load"
  /\ LET call == calls[w]
         loaded == DocxLoad(fs, get_safe_filepath(call.filename))
         bad == IF call.op = "add_heading" THEN HeadingFault(call.level) ELSE ""
     IN calls' = [calls EXCEPT ![w] =
          IF ~loaded.ok
          THEN [call EXCEPT !.pc = "done", !.result = MutationError(call, loaded.exc)]
          ELSE IF bad # ""
          THEN [call EXCEPT !.pc = "done", !.result = MutationError(call, bad)]
          ELSE [call EXCEPT !.pc = "save",
                            !.document = Append(loaded.blocks, BlockOf(call))]]
  /\ UNCHANGED fs
  /\ Frame

\* Lines 58-61, 80-83: document.save(safe_path), then the return.
MuSave(w) ==
  /\ calls[w].pc = "save"
  /\ LET call == calls[w]
         path == get_safe_filepath(call.filename)
         fault == DocxSaveFault(fs, path)
         nth == Cardinality({v \in Workers : calls[v].saved > 0}) + 1
     IN IF fault # ""
        THEN /\ calls' = [calls EXCEPT ![w] =
                  [call EXCEPT !.pc = "done", !.result = MutationError(call, fault)]]
             /\ UNCHANGED fs
        ELSE /\ calls' = [calls EXCEPT ![w] =
                  [call EXCEPT !.pc = "done", !.result = MutationAdded(call),
                               !.saved = nth]]
             /\ fs' = save_document(fs, path, call.document)
  /\ Frame

NextMutations ==
  \/ \E w \in Workers, op \in {"add_paragraph", "add_heading"},
        name \in FsNames, text \in Texts : MuBegin(w, op, name, text)
  \/ \E w \in Workers : MuLoad(w)
  \/ \E w \in Workers : MuSave(w)

SpecMutations == InitMutations /\ [][NextMutations]_vars

----------------------------------------------------------------------------
\* SpecConvert: one convert_to_pdf call, statement by statement, with the
\* converter object it creates and closes

\* The call: where it stands, its filename, the converter objects it has
\* created, the Close calls it has made, and what it is about to return.
Conversion(pc, name, created, closed, result) ==
  [pc |-> pc, filename |-> name, created |-> created, closed |-> closed,
   result |-> result]

\* The temp directory as the call finds it: as in Spec, or holding one
\* document.
ConvertStores ==
  InitialStores
    \cup {[EmptyStore EXCEPT ![get_safe_filepath(n)] = Docx(<<Paragraph(t)>>)] :
            n \in {m \in FsNames : ~IsDirectory(get_safe_filepath(m))}, t \in Texts}

InitConvert ==
  /\ fs \in ConvertStores
  /\ spireOk \in BOOLEAN
  /\ conv = Conversion("idle", <<>>, 0, 0, NoResult)
  /\ last = <<>>
  /\ fetched = {}
  /\ steps = 0
  /\ built = NotBuilt
  /\ calls = <<>>
  /\ client = [pc |-> "off"]
  /\ PathOff
  /\ B64Off

ConvertFrame ==
  UNCHANGED <<spireOk, last, fetched, steps, built, calls, client, pathVars, b64Vars>>

\* Lines 120-123: the call arrives and derives its two paths.
CvBegin(name) ==
  /\ conv.pc = "idle"
  /\ conv' = Conversion("new", name, 0, 0, NoResult)
  /\ UNCHANGED fs
  /\ ConvertFrame

\* Line 124: document = SpireDoc(), before the try block.
CvNew ==
  /\ conv.pc = "new"
  /\ conv' = [conv EXCEPT !.pc = "load", !.created = @ + 1]
  /\ UNCHANGED fs
  /\ ConvertFrame

\* Line 126: LoadFromFile; a fault goes to line 130 and then to the finally
\* clause.
CvLoad ==
  /\ conv.pc = "load"
  /\ LET fault == SpireLoadFault(fs, get_safe_filepath(conv.filename), spireOk)
     IN conv' = IF fault # ""
                THEN [conv EXCEPT !.pc = "finally",
                        !.result = Text(ConvertErrorMsg, conv.filename, fault, <<>>)]
                ELSE [conv EXCEPT !.pc = "save"]
  /\ UNCHANGED fs
  /\ ConvertFrame

\* Lines 127-130: SaveToFile and the return statement, or the fault and the
\* return statement of line 130; the finally clause runs next.
CvSave ==
  /\ conv.pc = "save"
  /\ LET docx_path == get_safe_filepath(conv.filename)
         target == ConvertTarget(docx_path)
         fault == SpireSaveFault(fs, target)
     IN IF fault # ""
        THEN /\ conv' = [conv EXCEPT !.pc = "finally",
                  !.result = Text(ConvertErrorMsg, conv.filename, fault, <<>>)]
             /\ UNCHANGED fs
        ELSE /\ conv' = [conv EXCEPT !.pc = "finally",
                  !.result = Text(ConvertedMsg, conv.filename, "", basename(target))]
             /\ fs' = [fs EXCEPT ![target] = Pdf(fs[docx_path].blocks)]
  /\ ConvertFrame

\* document.Close() as the last statement of the try body instead of a
\* finally clause: a fault skips it.
convert_close_in_try(c) ==
  IF IsSuccessResult(c.result)
  THEN [c EXCEPT !.pc = "done", !.closed = @ + 1]
  ELSE [c EXCEPT !.pc = "done"]

\* Lines 131-132: finally: document.Close(); then the call returns.
convert_finally(c) == [c EXCEPT !.pc = "done", !.closed = @ + 1]

CvFinally ==
  /\ conv.pc = "finally"
  /\ conv' = convert_finally(conv)
  /\ UNCHANGED fs
  /\ ConvertFrame

NextConvert ==
  \/ \E name \in FsNames : CvBegin(name)
  \/ CvNew
  \/ CvLoad
  \/ CvSave
  \/ CvFinally

SpecConvert == InitConvert /\ [][NextConvert]_vars

----------------------------------------------------------------------------
\* SpecClient: main of client.py against the server, its tool calls one after
\* another and no other call in between

\* client.py lines 19-20.
server_docx_filename ==
  << "r", "e", "m", "o", "t", "e", "_", "r", "e", "p", "o", "r", "t" >> \o DocxExt

server_pdf_filename ==
  << "r", "e", "m", "o", "t", "e", "_", "r", "e", "p", "o", "r", "t" >> \o PdfExt

\* The paths of the temp directory that main's calls resolve to.
ClientPaths ==
  { get_safe_filepath(server_docx_filename),
    ConvertTarget(get_safe_filepath(server_docx_filename)),
    get_safe_filepath(server_pdf_filename) }

\* The temp directory as main finds it: at each of these paths nothing, a
\* file that is no document, or a document or PDF of an earlier run.
ClientStores ==
  [ClientPaths -> {Absent, Foreign, Docx(<<Paragraph(<<"U">>)>>), Pdf(BlankDocument)}]

\* main: where it stands, the texts of its heading and paragraph arguments
\* (lines 32, 39), the last server response, and lines 56-71's locals.
Main(pc, heading, paragraph, result, base64_content, bytes) ==
  [pc |-> pc, heading |-> heading, paragraph |-> paragraph, result |-> result,
   base64_content |-> base64_content, file_bytes |-> bytes]

InitClient ==
  /\ fs \in ClientStores
  /\ spireOk \in BOOLEAN
  /\ \E h \in Texts, p \in Texts :
       client = Main("create", h, p, NoResult, <<>>, <<>>)
  /\ last = <<>>
  /\ fetched = {}
  /\ steps = 0
  /\ built = NotBuilt
  /\ calls = <<>>
  /\ conv = [pc |-> "off"]
  /\ PathOff
  /\ B64Off

ClientFrame ==
  UNCHANGED <<spireOk, last, fetched, steps, built, calls, conv, pathVars, b64Vars>>

\* client.call_tool: the server runs the tool; a tool that raised makes
\* call_tool raise, which takes main to lines 76-80.
CallTool(pc, next, out) ==
  /\ client.pc = pc
  /\ fs' = out.fs
  /\ client' = [client EXCEPT
       !.pc = IF out.result.kind = "raise" THEN "aborted" ELSE next,
       !.result = out.result]
  /\ ClientFrame

\* Line 28.
MainCreate ==
  CallTool("create", "heading", create_document(fs, server_docx_filename))

\* Lines 32-33.
MainHeading ==
  CallTool("heading", "paragraph",
           add_heading(fs, server_docx_filename, client.heading, 1))

\* Lines 37-41.
MainParagraph ==
  CallTool("paragraph", "convert",
           add_paragraph(fs, server_docx_filename, client.paragraph))

\* Lines 46-47.
MainConvert ==
  CallTool("convert", "download",
           convert_to_pdf(fs, server_docx_filename, spireOk))

\* Lines 52-56.
MainDownload ==
  /\ client.pc = "download"
  /\ LET out == download_document(fs, server_pdf_filename)
     IN /\ fs' = out.fs
        /\ client' = [client EXCEPT
             !.pc = "received",
             !.result = out.result,
             !.base64_content = DownloadText(out.result)]
  /\ ClientFrame

\* Lines 58-74; a decode that raises takes main to lines 76-80.
MainSave ==
  /\ client.pc = "received"
  /\ client' =
       IF ~Contains(client.base64_content, ErrorMarker)
       THEN LET decoded == b64decode(Repad(client.base64_content))
            IN IF decoded.ok
               THEN [client EXCEPT !.pc = "saved", !.file_bytes = decoded.bytes]
               ELSE [client EXCEPT !.pc = "aborted"]
       ELSE [client EXCEPT !.pc = "rejected"]
  /\ UNCHANGED fs
  /\ ClientFrame

NextClient ==
  \/ MainCreate
  \/ MainHeading
  \/ MainParagraph
  \/ MainConvert
  \/ MainDownload
  \/ MainSave

SpecClient == InitClient /\ [][NextClient]_vars

----------------------------------------------------------------------------
\* Claims on path resolution (SpecPath)

\* C1: for every filename, get_safe_filepath returns a path strictly inside
\* the temp directory: never the directory itself, its parent or a place
\* outside it.
C1_ResolvedStrictlyInside ==
  pathPc \in {"resolved", "derived"} => StrictlyInside(safe_path, TempDir)

\* The source path with its trailing Word extension replaced by the PDF
\* extension, or with the PDF extension appended when it has none.
ExtensionReplaced(p) ==
  IF EndsWith(p, DocxExt)
  THEN SubSeq(p, 1, Len(p) - Len(DocxExt)) \o PdfExt
  ELSE p \o PdfExt

\* C10: the path convert_to_pdf writes is the resolved source path with its
\* trailing ".docx" replaced by ".pdf", or with ".pdf" appended when there is
\* no such extension; nothing else of the path changes and the target is not
\* the source.
C10_TargetReplacesExtension ==
  pathPc = "derived" =>
    /\ pdf_path = ExtensionReplaced(safe_path)
    /\ pdf_path # safe_path

\* The names that hold no file name: the empty string and the dot-only names.
DotNames == {<<>>, <<".">>, <<".", ".">>}

\* C11: for the empty string and the dot-only names "." and "..",
\* get_safe_filepath returns the temp directory joined with a non-empty file
\* name of its own choosing: a path of a file inside the directory, not a
\* path that denotes a directory.
C11_DotNamesGetFileName ==
  (pathPc \in {"resolved", "derived"} /\ filename \in DotNames) =>
    /\ safe_path = join(TempDir, basename(safe_path))
    /\ basename(safe_path) \notin DotNames
    /\ StrictlyInside(safe_path, TempDir)

----------------------------------------------------------------------------
\* Claims on the transfer encoding (SpecB64)

\* C2: for every byte sequence, client.py's re-pad and decode of the text
\* download_document returns for a file holding it gives back exactly those
\* bytes, whether the text arrived with its trailing padding or without.
C2_DownloadRoundTrip ==
  b64Pc \in {"saved", "failed", "rejected"} =>
    b64Pc = "saved" /\ file_bytes = data

\* C2 happens: a file whose length is no multiple of three, its padding lost
\* on the way, decoded and saved.
C2_Witness ==
  /\ b64Pc = "saved"
  /\ Len(data) % 3 # 0
  /\ Len(wire) % 4 # 0
  /\ file_bytes = data

----------------------------------------------------------------------------
\* Claims on the tools (Spec)

\* The step is a tool call returning.
Returned == steps' = steps + 1

NotFoundResult(name) == Text(NotFoundMsg, name, "", <<>>)

\* C3: once download_document has returned the content of a file, a later
\* download_document of the same path, with no write to that path between
\* the two, returns the not-found result.
C3_SecondDownloadNotFound ==
  [][ (Returned /\ last'.op = "download_document"
         /\ get_safe_filepath(last'.filename) \in fetched)
      => last'.result = NotFoundResult(last'.filename) ]_vars

\* C3 happens: a download answered not-found for a path an earlier download
\* returned content from.
C3_Witness ==
  /\ last.op = "download_document"
  /\ get_safe_filepath(last.filename) \in fetched
  /\ last.result = NotFoundResult(last.filename)

\* C5: convert_to_pdf never changes the file at the source path, whether it
\* succeeds or fails, and never writes to the source path.
C5_ConvertKeepsSource ==
  [][ (Returned /\ last'.op = "convert_to_pdf")
      => LET docx_path == get_safe_filepath(last'.filename)
         IN /\ fs'[docx_path] = fs[docx_path]
            /\ docx_path \notin Written(fs, fs') ]_vars

\* C5 happens: a conversion succeeded, of a document whose name has no Word
\* extension, and the document is still at the source path beside the PDF.
C5_Witness ==
  /\ last.op = "convert_to_pdf"
  /\ IsSuccessResult(last.result)
  /\ ~EndsWith(last.filename, DocxExt)
  /\ fs[get_safe_filepath(last.filename)].kind = "docx"
  /\ fs[ConvertTarget(get_safe_filepath(last.filename))].kind = "pdf"

\* A stage of process_document failed: it returned an error or raised.
StageFailed(st) == ~IsSuccessResult(st.result)

\* C6: in process_document a failing stage is the last stage that runs and
\* its error is what process_document returns; the success message is
\* returned only when all five stages succeeded.
C6_FailureStopsPipeline ==
  last.op = "process_document" =>
    /\ \A i \in 1..Len(last.stages) :
         StageFailed(last.stages[i]) =>
           i = Len(last.stages) /\ last.result = last.stages[i].result
    /\ last.result.tmpl = ProcessedMsg =>
         /\ Len(last.stages) = 5
         /\ \A i \in 1..5 : ~StageFailed(last.stages[i])

\* C7: every tool call returns a text result; no fault leaves the call.
C7_EveryCallReturnsText ==
  last.op # "none" => last.result.kind = "text"

\* s holds an open tag with a close tag after it.
HasRegion(s, open, close) ==
  \E i \in 1..Len(s) : \E j \in (i + 1)..Len(s) : s[i] = open /\ s[j] = close

\* C8: process_document on an input without a header region or without a
\* body region returns the tags error, runs no stage and leaves every file
\* of the temp directory as it was.
C8_MissingTagsNoEffect ==
  [][ (Returned /\ last'.op = "process_document"
         /\ (~HasRegion(last'.input, HeaderOpen, HeaderClose)
               \/ ~HasRegion(last'.input, BodyOpen, BodyClose)))
      => /\ last'.result = Text(TagsErrorMsg, last'.filename, "", <<>>)
         /\ last'.stages = <<>>
         /\ fs' = fs ]_vars

\* C8 happens: process_document refused an input that has a header region
\* and no body region, with a file in the temp directory.
C8_Witness ==
  /\ last.op = "process_document"
  /\ HasRegion(last.input, HeaderOpen, HeaderClose)
  /\ ~HasRegion(last.input, BodyOpen, BodyClose)
  /\ last.result.tmpl = TagsErrorMsg
  /\ \E p \in Paths : fs[p].kind = "docx"

\* The error template of the mutation tool op.
MutationErrorMsg(op) ==
  IF op = "add_heading" THEN HeadingErrorMsg ELSE ParagraphErrorMsg

\* C9: add_heading and add_paragraph on a path that holds no readable
\* document, and add_heading with a level outside 0-9, return their error
\* result without raising and leave every file as it was.
C9_FailedMutationNoEffect ==
  [][ (Returned /\ last'.op \in {"add_heading", "add_paragraph"}
         /\ (fs[get_safe_filepath(last'.filename)].kind # "docx"
               \/ (last'.op = "add_heading" /\ last'.level \notin 0..9)))
      => /\ last'.result.kind = "text"
         /\ last'.result.tmpl = MutationErrorMsg(last'.op)
         /\ last'.result.exc # ""
         /\ fs' = fs ]_vars

\* C9 happens: add_heading with level 10 on an existing document was
\* refused, and the document is still there.
C9_Witness ==
  /\ last.op = "add_heading"
  /\ last.level = 10
  /\ last.result.tmpl = HeadingErrorMsg
  /\ last.result.exc = "ValueError"
  /\ fs[get_safe_filepath(last.filename)].kind = "docx"

\* C12: download_document called when no file exists at the resolved path
\* returns "Error: File not found on the server." and does not raise, the temp
\* directory is left as it was, and a download that fails for any other reason
\* returns a different result.
C12_AbsentIsNotFound ==
  [][ (Returned /\ last'.op = "download_document")
      => LET name == last'.filename
             path == get_safe_filepath(name)
         IN /\ fs[path].kind = "absent"
                 => last'.result = NotFoundResult(name) /\ fs' = fs
            /\ (fs[path].kind # "absent" /\ ~IsSuccessResult(last'.result))
                 => last'.result # NotFoundResult(name) ]_vars

\* C12 happens: a download of a name never written or downloaded answered
\* not-found, beside a file under another name that is still there.
C12_Witness ==
  /\ last.op = "download_document"
  /\ last.result = NotFoundResult(last.filename)
  /\ get_safe_filepath(last.filename) \notin fetched
  /\ fs[get_safe_filepath(last.filename)].kind = "absent"
  /\ \E p \in Paths : fs[p].kind \in {"docx", "pdf", "bytes"}

\* C13: after create_document(f) followed by successful add_heading /
\* add_paragraph calls on f, one after another and nothing else in between,
\* the document at the resolved path of f holds exactly the blocks those calls
\* appended, in call order; a call repeated with the same arguments appends a
\* second block.
C13_BlocksInCallOrder ==
  built.on => fs[built.path] = Docx(built.blocks)

\* C13 happens: two calls with the same arguments followed the create, and
\* the document holds the block twice.
C13_Witness ==
  /\ built.on
  /\ Len(built.blocks) = 2
  /\ built.blocks[1] = built.blocks[2]
  /\ fs[built.path] = Docx(built.blocks)
  /\ last.op \in {"add_paragraph", "add_heading"}

\* The paths a call is addressed to: the resolved path of its filename for
\* create_document, add_paragraph, add_heading, download_document and
\* upload_to_s3; the derived target path for convert_to_pdf; and for
\* process_document the paths its five stages are addressed to.
Addressed(call) ==
  LET path == get_safe_filepath(call.filename)
  IN CASE call.op = "convert_to_pdf" -> {ConvertTarget(path)}
       [] call.op = "process_document" ->
            {path, ConvertTarget(path), get_safe_filepath(PdfFilename(call.filename))}
       [] OTHER -> {path}

\* C15: a file of the temp directory keeps its content across every call
\* except a create_document, add_paragraph or add_heading addressed to its
\* path, a convert_to_pdf whose derived target is its path, and a
\* download_document or upload_to_s3 addressed to its path; so a mutation of
\* the source after a conversion leaves the converted file as it was.
C15_OtherFilesKept ==
  [][ Returned =>
        \A p \in Paths \ Addressed(last') : fs'[p] = fs[p] ]_vars

\* C15 happens: a document was converted and then appended to, and the PDF
\* still holds the blocks of the conversion, not those of the document now.
C15_Witness ==
  /\ last.op \in {"add_paragraph", "add_heading"}
  /\ IsSuccessResult(last.result)
  /\ LET path == get_safe_filepath(last.filename)
     IN /\ fs[ConvertTarget(path)].kind = "pdf"
        /\ fs[path].kind = "docx"
        /\ fs[path].blocks = Append(fs[ConvertTarget(path)].blocks, BlockOf(last))

\* C17: for every filename, the file process_document hands to upload_to_s3,
\* the resolved path of the PDF name it derives from the raw filename, is the
\* path convert_to_pdf wrote for that filename; so the upload stage never
\* removes the source document.
C17_UploadsConvertedFile ==
  (last.op = "process_document" /\ Len(last.stages) = 5) =>
    LET path == get_safe_filepath(last.filename)
        uploaded == get_safe_filepath(last.stages[5].result.filename)
    IN /\ uploaded = ConvertTarget(path)
       /\ IsSuccessResult(last.stages[3].result) => fs[path].kind = "docx"

\* C18: the test of client.py line 58, whether the text holds "Error:", takes
\* every error result of download_document for an error and no encoded
\* content for one, so the client never decodes and saves an error message.
C18_ClientTellsErrors ==
  last.op = "download_document" =>
    (IsErrorResult(last.result) <=> Contains(DownloadText(last.result), ErrorMarker))

\* C19: create_document(f) leaves an empty document at the resolved path of
\* f whatever was there before, and calling it a second time right away
\* leaves the temp directory as the first call left it.
C19_CreateLeavesEmptyDocument ==
  last.op = "create_document" =>
    /\ fs[get_safe_filepath(last.filename)] = Docx(BlankDocument)
    /\ create_document(fs, last.filename).fs = fs

----------------------------------------------------------------------------
\* Claims on concurrent downloads (SpecDownloads)

\* The workers whose call on path p is over with the encoded content.
Served(p) ==
  {w \in Workers : /\ calls[w].pc = "done"
                   /\ get_safe_filepath(calls[w].filename) = p
                   /\ calls[w].result.tmpl = EncodedMsg}

\* C4: of the download_document calls on one file that is written once, at
\* most one returns the encoded content, however their open, read and remove
\* steps interleave; every other call returns an error result.
C4_AtMostOneDownload ==
  /\ \A p \in Paths : Cardinality(Served(p)) <= 1
  /\ \A w \in Workers :
       calls[w].pc = "done" /\ calls[w].result.tmpl # EncodedMsg
         => IsErrorResult(calls[w].result)

\* C4 happens: two workers both opened and read the same file; one returned
\* its content, the other the not-found error.
C4_Witness ==
  \E v \in Workers, w \in Workers :
    /\ calls[v].pc = "done" /\ calls[w].pc = "done"
    /\ calls[v].filename = calls[w].filename
    /\ calls[v].handle.kind = "docx" /\ calls[w].handle.kind = "docx"
    /\ calls[v].result.tmpl = EncodedMsg
    /\ calls[w].result.tmpl = NotFoundMsg

----------------------------------------------------------------------------
\* Claims on concurrent mutations (SpecMutations)

\* The workers that have saved to path p.
Savers(p) ==
  {w \in Workers : calls[w].saved > 0 /\ get_safe_filepath(calls[w].filename) = p}

LastSaver(p) ==
  CHOOSE w \in Savers(p) : \A v \in Savers(p) : calls[v].saved <= calls[w].saved

\* C16: when add_paragraph / add_heading calls on one filename interleave
\* their load, append and save, the file is exactly what the call that saved
\* last wrote, the document it loaded with its own block appended, so the
\* file always ends with the last saver's block.
C16_LastSaverWins ==
  \A p \in Paths :
    Savers(p) # {} =>
      LET call == calls[LastSaver(p)]
      IN /\ fs[p] = Docx(call.document)
         /\ call.document # <<>>
         /\ call.document[Len(call.document)] = BlockOf(call)

\* C16 happens: two calls on one filename both returned success, and the
\* block of one of them is not in the file.
C16_Witness ==
  \E w \in Workers, v \in Workers :
    /\ w # v
    /\ calls[w].pc = "done" /\ IsSuccessResult(calls[w].result)
    /\ calls[v].pc = "done" /\ IsSuccessResult(calls[v].result)
    /\ calls[w].filename = calls[v].filename
    /\ LET blocks == fs[get_safe_filepath(calls[w].filename)].blocks
       IN /\ \E i \in 1..Len(blocks) : blocks[i] = BlockOf(calls[w])
          /\ \A i \in 1..Len(blocks) : blocks[i] # BlockOf(calls[v])

----------------------------------------------------------------------------
\* Claims on the converter (SpecConvert)

\* C20: a convert_to_pdf call that has created its converter object closes
\* it exactly once before it returns, when the conversion succeeded and when
\* the load or the save failed: no Close before the finally clause, one by
\* the time the call has returned.
C20_ConverterClosedOnce ==
  /\ conv.pc \in {"load", "save", "finally"} => conv.created = 1 /\ conv.closed = 0
  /\ conv.pc = "done" => conv.created = 1 /\ conv.closed = 1

\* C20 happens: a call whose conversion failed has returned its error text
\* with its converter closed.
C20_Witness ==
  /\ conv.pc = "done"
  /\ conv.result.tmpl = ConvertErrorMsg
  /\ conv.created = 1
  /\ conv.closed = 1

----------------------------------------------------------------------------
\* Claims on the client's run (SpecClient)

\* C14: on a host whose converter works, the run create_document(f),
\* add_heading(f, h, 1), add_paragraph(f, p), convert_to_pdf(f),
\* download_document(PDF name of f), with no other call in between, ends with
\* download_document returning encoded content that is no error and that
\* decodes to the PDF of the document holding the heading h followed by the
\* paragraph p.
C14_RunDeliversDocument ==
  (spireOk /\ client.pc \in {"saved", "rejected", "aborted"}) =>
    /\ client.pc = "saved"
    /\ IsSuccessResult(client.result)
    /\ ~Contains(client.base64_content, ErrorMarker)
    /\ client.file_bytes =
         FileBytes(Pdf(<<Heading(client.heading, 1), Paragraph(client.paragraph)>>))

\* C14 happens: with a working converter main ran to its end and saved the
\* decoded download, a PDF of its heading and its paragraph, which differ.
C14_Witness ==
  /\ spireOk
  /\ client.pc = "saved"
  /\ client.heading # client.paragraph
  /\ client.file_bytes =
       FileBytes(Pdf(<<Heading(client.heading, 1), Paragraph(client.paragraph)>>))
  /\ fs[get_safe_filepath(server_pdf_filename)] = Absent

====
